---- MODULE Spec2Model ----
(***************************************************************************)
(* Model of the Uniswap V2 router call-parameter encoder                   *)
(* (src/src/index.ts): quote, Router.swapCallParameters,                   *)
(* Router.addCallParameters and Router.removeCallParameters.               *)
(*                                                                         *)
(* Every operation is a pure, synchronous function.  A behaviour of the    *)
(* model is one call: Init draws the arguments of the call from bounded    *)
(* sets, and one action per operation runs the whole body and records what *)
(* it returned or threw, together with the statements it executed.         *)
(*                                                                         *)
(* JavaScript strings that carry numbers are modelled as sequences of      *)
(* one-character strings, so that "0x3e8" (toString(16)) and "1000"        *)
(* (toString()) are different values and parsing is a computation.         *)
(***************************************************************************)
EXTENDS Integers, Sequences, FiniteSets, TLC

VARIABLES pc, call, result, steps

vars == <<pc, call, result, steps>>

----------------------------------------------------------------------------
(* Bounds of the model *)

MaxAmount == 4
MaxReserve == 3
MaxSupply == 2
MaxSlippageNum == 1
MaxQuote == 5
MaxTtl == 1
MaxDeadline == 1
MaxNow == 1

(* Program constants *)

ONE == 1

----------------------------------------------------------------------------
(* Number <-> string conversions (BigInt.toString(radix), JSBI.BigInt(s),  *)
(* Number(s)) *)

Digits == <<"0", "1", "2", "3", "4", "5", "6", "7", "8", "9",
            "a", "b", "c", "d", "e", "f">>

RECURSIVE toString(_, _)
toString(n, radix) ==
    IF n < radix
    THEN <<Digits[n + 1]>>
    ELSE toString(n \div radix, radix) \o <<Digits[(n % radix) + 1]>>

DigitValue(c) == CHOOSE i \in 0..9 : Digits[i + 1] = c

RECURSIVE BigInt(_)
BigInt(s) ==
    IF Len(s) = 1
    THEN DigitValue(s[1])
    ELSE BigInt(SubSeq(s, 1, Len(s) - 1)) * 10 + DigitValue(s[Len(s)])

(* Number(decimalString): exact for every value below 2^53, which covers   *)
(* the bounds of the model. *)
Number(s) == BigInt(s)

----------------------------------------------------------------------------
(* Exact rational arithmetic (Fraction of @uniswap/sdk-core): a Fraction   *)
(* is a numerator/denominator pair that is never reduced. *)

Fraction(n, d) == [numerator |-> n, denominator |-> d]

FractionOf(x) == Fraction(x, 1)

add(f, g) ==
    IF f.denominator = g.denominator
    THEN Fraction(f.numerator + g.numerator, f.denominator)
    ELSE Fraction(f.numerator * g.denominator + g.numerator * f.denominator,
                  f.denominator * g.denominator)

multiply(f, g) ==
    Fraction(f.numerator * g.numerator, f.denominator * g.denominator)

divide(f, g) ==
    Fraction(f.numerator * g.denominator, f.denominator * g.numerator)

invert(f) == Fraction(f.denominator, f.numerator)

equalTo(f, g) == f.numerator * g.denominator = g.numerator * f.denominator

(* JSBI.divide throws RangeError on a zero divisor; callers test           *)
(* DivisionByZero first. *)
DivisionByZero(f) == f.denominator = 0

quotient(f) == f.numerator \div f.denominator

----------------------------------------------------------------------------
(* src/src/index.ts:93-101 *)

toHex(currencyAmount) == <<"0", "x">> \o toString(quotient(currencyAmount), 16)

ZERO_HEX == <<"0", "x", "0">>

(* quote with the roles of the two reserves exchanged. *)
quoteReservesExchanged(amountA, reserveA, reserveB) ==
    divide(multiply(amountA, reserveB), reserveA)

quote(amountA, reserveA, reserveB) == divide(multiply(amountA, reserveA), reserveB)

----------------------------------------------------------------------------
(* Outcomes of a call *)

Pending == [kind |-> "pending"]

Thrown(e) == [kind |-> "throw", error |-> e]

Returned(m, a, v) == [kind |-> "return", methodName |-> m, args |-> a, value |-> v]

Outcome(r, s) == [result |-> r, steps |-> s]

(* validateAndParseAddress of @uniswap/sdk-core: returns the checksummed   *)
(* address, throws on anything that is not an address. *)
ValidAddresses == {"0xrecipient"}

Checksummed(address) == IF address = "0xrecipient" THEN "0xRecipient" ELSE address

validateAndParseAddress(address) == Checksummed(address)

InvalidAddress(address) == address \notin ValidAddresses

(* 'ttl' in options *)
HasTtl(options) == "ttl" \in DOMAIN options

(* The ttl check with zero accepted. *)
TtlOkNonNegative(options) == ~HasTtl(options) \/ options.ttl >= 0

(* invariant(!('ttl' in options) || options.ttl > 0, 'TTL') *)
TtlOk(options) == ~HasTtl(options) \/ options.ttl > 0

(* The deadline argument; now is Math.floor(new Date().getTime() / 1000). *)
Deadline(options, now) ==
    IF HasTtl(options)
    THEN <<"0", "x">> \o toString(now + options.ttl, 16)
    ELSE <<"0", "x">> \o toString(options.deadline, 16)

(* Boolean(options.feeOnTransfer) *)
UseFeeOnTransfer(options) ==
    "feeOnTransfer" \in DOMAIN options /\ options.feeOnTransfer

----------------------------------------------------------------------------
(* Router.swapCallParameters, src/src/index.ts:117-187 *)

SwapChecks == <<"invariant ETHER_IN_OUT", "invariant TTL", "validateAndParseAddress">>

SwapDerivation == <<"maximumAmountIn", "minimumAmountOut", "path", "deadline">>

(* case TradeType.EXACT_INPUT, lines 142-161 *)
SwapExactInput(etherIn, etherOut, useFeeOnTransfer, amountIn, amountOut, path, to, deadline, derived) ==
    IF etherIn
    THEN Outcome(Returned(IF useFeeOnTransfer
                          THEN "swapExactETHForTokensSupportingFeeOnTransferTokens"
                          ELSE "swapExactETHForTokens",
                          <<amountOut, path, to, deadline>>, amountIn),
                 derived \o <<"args">>)
    ELSE IF etherOut
    THEN Outcome(Returned(IF useFeeOnTransfer
                          THEN "swapExactTokensForETHSupportingFeeOnTransferTokens"
                          ELSE "swapExactTokensForETH",
                          <<amountIn, amountOut, path, to, deadline>>, ZERO_HEX),
                 derived \o <<"args">>)
    ELSE Outcome(Returned(IF useFeeOnTransfer
                          THEN "swapExactTokensForTokensSupportingFeeOnTransferTokens"
                          ELSE "swapExactTokensForTokens",
                          <<amountIn, amountOut, path, to, deadline>>, ZERO_HEX),
                 derived \o <<"args">>)

(* The exact-output case with the amounts in the exact-input order. *)
SwapExactOutputInputFirst(etherIn, etherOut, useFeeOnTransfer, amountIn, amountOut, path, to, deadline, derived) ==
    IF useFeeOnTransfer
    THEN Outcome(Thrown("EXACT_OUT_FOT"), derived \o <<"invariant EXACT_OUT_FOT">>)
    ELSE IF etherIn
    THEN Outcome(Returned("swapETHForExactTokens",
                          <<amountOut, path, to, deadline>>, amountIn),
                 derived \o <<"invariant EXACT_OUT_FOT", "args">>)
    ELSE IF etherOut
    THEN Outcome(Returned("swapTokensForExactETH",
                          <<amountIn, amountOut, path, to, deadline>>, ZERO_HEX),
                 derived \o <<"invariant EXACT_OUT_FOT", "args">>)
    ELSE Outcome(Returned("swapTokensForExactTokens",
                          <<amountIn, amountOut, path, to, deadline>>, ZERO_HEX),
                 derived \o <<"invariant EXACT_OUT_FOT", "args">>)

(* The exact-output case with the fee-on-transfer check made after the     *)
(* arguments were built. *)
SwapExactOutputLateCheck(etherIn, etherOut, useFeeOnTransfer, amountIn, amountOut, path, to, deadline, derived) ==
    IF useFeeOnTransfer
    THEN Outcome(Thrown("EXACT_OUT_FOT"), derived \o <<"args", "invariant EXACT_OUT_FOT">>)
    ELSE IF etherIn
    THEN Outcome(Returned("swapETHForExactTokens",
                          <<amountOut, path, to, deadline>>, amountIn),
                 derived \o <<"args", "invariant EXACT_OUT_FOT">>)
    ELSE IF etherOut
    THEN Outcome(Returned("swapTokensForExactETH",
                          <<amountOut, amountIn, path, to, deadline>>, ZERO_HEX),
                 derived \o <<"args", "invariant EXACT_OUT_FOT">>)
    ELSE Outcome(Returned("swapTokensForExactTokens",
                          <<amountOut, amountIn, path, to, deadline>>, ZERO_HEX),
                 derived \o <<"args", "invariant EXACT_OUT_FOT">>)

(* case TradeType.EXACT_OUTPUT, lines 162-180 *)
SwapExactOutput(etherIn, etherOut, useFeeOnTransfer, amountIn, amountOut, path, to, deadline, derived) ==
    IF useFeeOnTransfer
    THEN Outcome(Thrown("EXACT_OUT_FOT"), derived \o <<"invariant EXACT_OUT_FOT">>)
    ELSE IF etherIn
    THEN Outcome(Returned("swapETHForExactTokens",
                          <<amountOut, path, to, deadline>>, amountIn),
                 derived \o <<"invariant EXACT_OUT_FOT", "args">>)
    ELSE IF etherOut
    THEN Outcome(Returned("swapTokensForExactETH",
                          <<amountOut, amountIn, path, to, deadline>>, ZERO_HEX),
                 derived \o <<"invariant EXACT_OUT_FOT", "args">>)
    ELSE Outcome(Returned("swapTokensForExactTokens",
                          <<amountOut, amountIn, path, to, deadline>>, ZERO_HEX),
                 derived \o <<"invariant EXACT_OUT_FOT", "args">>)

swapCallParameters(trade, options, now) ==
    LET etherIn == trade.inputAmount.currency.isNative
        etherOut == trade.outputAmount.currency.isNative
    IN
    IF etherIn /\ etherOut
    THEN Outcome(Thrown("ETHER_IN_OUT"), SubSeq(SwapChecks, 1, 1))
    ELSE IF ~TtlOk(options)
    THEN Outcome(Thrown("TTL"), SubSeq(SwapChecks, 1, 2))
    ELSE IF InvalidAddress(options.recipient)
    THEN Outcome(Thrown("INVALID_ADDRESS"), SwapChecks)
    ELSE
    LET to == validateAndParseAddress(options.recipient)
        amountIn == toHex(trade.maximumAmountIn)
        amountOut == toHex(trade.minimumAmountOut)
        path == trade.route.path
        deadline == Deadline(options, now)
        useFeeOnTransfer == UseFeeOnTransfer(options)
        derived == SwapChecks \o SwapDerivation
    IN
    IF trade.tradeType = "EXACT_INPUT"
    THEN SwapExactInput(etherIn, etherOut, useFeeOnTransfer,
                        amountIn, amountOut, path, to, deadline, derived)
    ELSE SwapExactOutput(etherIn, etherOut, useFeeOnTransfer,
                         amountIn, amountOut, path, to, deadline, derived)

----------------------------------------------------------------------------
(* Router.addCallParameters, src/src/index.ts:189-292 *)

LiquidityChecks == <<"invariant ETHER_IN_OUT", "invariant TTL", "validateAndParseAddress">>

(* The slippage factor without the inversion. *)
SlippageNotInverted(allowedSlippage) == add(FractionOf(ONE), allowedSlippage)

(* new Fraction(ONE).add(options.allowedSlippage).invert() *)
SlippageAdjusted(allowedSlippage) == invert(add(FractionOf(ONE), allowedSlippage))

(* The minimum without the added unit. *)
MinimumAmountUnbiased(slippageAdjusted, amountDesired) ==
    toString(quotient(multiply(slippageAdjusted, FractionOf(BigInt(amountDesired)))), 10)

(* slippageAdjusted.multiply(amountDesired).add(1).quotient.toString(),    *)
(* amountDesired being a decimal string *)
MinimumAmount(slippageAdjusted, amountDesired) ==
    toString(quotient(add(multiply(slippageAdjusted, FractionOf(BigInt(amountDesired))),
                          FractionOf(1))), 10)

(* quote(amount0, pair.reserve1, pair.reserve0) *)
AmountBOptimal(pair, amount0) == quote(amount0, pair.reserve1, pair.reserve0)

(* The A-side optimum with the reserves in the order of the B side. *)
AmountAOptimalSameOrder(pair, amount1) == quote(amount1, pair.reserve1, pair.reserve0)

(* quote(amount1, pair.reserve0, pair.reserve1) *)
AmountAOptimal(pair, amount1) == quote(amount1, pair.reserve0, pair.reserve1)

Amounts4(aDesired, aMin, bDesired, bMin, thrown, s) ==
    [amountADesired |-> aDesired, amountAMin |-> aMin,
     amountBDesired |-> bDesired, amountBMin |-> bMin, thrown |-> thrown, steps |-> s]

(* Lines 205-254: the desired amounts, their minimums and the              *)
(* reconciliation against the reserves of the pair. *)
Reconcile(pair, amount0, amount1, allowedSlippage) ==
    LET slippageAdjusted == SlippageAdjusted(allowedSlippage)
        amountADesired == toString(quotient(amount0), 10)
        amountBDesired == toString(quotient(amount1), 10)
        amountAMin == MinimumAmount(slippageAdjusted, amountADesired)
        amountBMin == MinimumAmount(slippageAdjusted, amountBDesired)
        s0 == <<"slippageAdjusted", "amountADesired", "amountBDesired",
                "amountAMin", "amountBMin">>
    IN
    IF equalTo(pair.reserve0, FractionOf(0)) /\ equalTo(pair.reserve1, FractionOf(0))
    THEN Amounts4(amountADesired, amountAMin, amountBDesired, amountBMin, FALSE, s0)
    ELSE IF DivisionByZero(AmountBOptimal(pair, amount0))
    THEN Amounts4(amountADesired, amountAMin, amountBDesired, amountBMin, TRUE,
                  s0 \o <<"amountBOptimal">>)
    ELSE
    LET amountBOptimal == toString(quotient(AmountBOptimal(pair, amount0)), 10)
        s1 == s0 \o <<"amountBOptimal">>
    IN
    IF Number(amountBOptimal) <= Number(amountBDesired)
    THEN IF Number(amountBOptimal) < Number(amountBMin)
         THEN Amounts4(amountADesired, amountAMin,
                       amountBOptimal, MinimumAmount(slippageAdjusted, amountBOptimal), FALSE,
                       s1 \o <<"amountBOptimal <= amountBDesired", "amountBOptimal < amountBMin">>)
         ELSE Amounts4(amountADesired, amountAMin, amountBDesired, amountBMin, FALSE,
                       s1 \o <<"amountBOptimal <= amountBDesired">>)
    ELSE IF DivisionByZero(AmountAOptimal(pair, amount1))
    THEN Amounts4(amountADesired, amountAMin, amountBDesired, amountBMin, TRUE,
                  s1 \o <<"amountAOptimal">>)
    ELSE
    LET amountAOptimal == toString(quotient(AmountAOptimal(pair, amount1)), 10)
        s2 == s1 \o <<"amountAOptimal">>
    IN
    IF Number(amountAOptimal) <= Number(amountADesired)
    THEN IF Number(amountAOptimal) < Number(amountAMin)
         THEN Amounts4(amountAOptimal, MinimumAmount(slippageAdjusted, amountAOptimal),
                       amountBDesired, amountBMin, FALSE,
                       s2 \o <<"amountAOptimal <= amountADesired", "amountAOptimal < amountAMin">>)
         ELSE Amounts4(amountADesired, amountAMin, amountBDesired, amountBMin, FALSE,
                       s2 \o <<"amountAOptimal <= amountADesired">>)
    ELSE Amounts4(amountADesired, amountAMin, amountBDesired, amountBMin, FALSE,
                  s2 \o <<"todo: error?">>)

addCallParameters(pair, amount0, amount1, options, now) ==
    LET ether0 == amount0.currency.isNative
        ether1 == amount1.currency.isNative
    IN
    IF ether0 /\ ether1
    THEN Outcome(Thrown("ETHER_IN_OUT"), SubSeq(LiquidityChecks, 1, 1))
    ELSE IF ~TtlOk(options)
    THEN Outcome(Thrown("TTL"), SubSeq(LiquidityChecks, 1, 2))
    ELSE IF InvalidAddress(options.recipient)
    THEN Outcome(Thrown("INVALID_ADDRESS"), LiquidityChecks)
    ELSE
    LET to == validateAndParseAddress(options.recipient)
        r == Reconcile(pair, amount0, amount1, options.allowedSlippage)
        deadline == Deadline(options, now)
        done == LiquidityChecks \o r.steps \o <<"deadline", "args">>
    IN
    IF r.thrown
    THEN Outcome(Thrown("Division by zero"), LiquidityChecks \o r.steps)
    ELSE IF ether0
    THEN Outcome(Returned("addLiquidityETH",
                          <<pair.token1.address, r.amountBDesired, r.amountBMin,
                            r.amountAMin, to, deadline>>,
                          r.amountADesired), done)
    ELSE IF ether1
    THEN Outcome(Returned("addLiquidityETH",
                          <<pair.token0.address, r.amountADesired, r.amountAMin,
                            r.amountBMin, to, deadline>>,
                          r.amountBDesired), done)
    ELSE Outcome(Returned("addLiquidity",
                          <<pair.token0.address, pair.token1.address,
                            r.amountADesired, r.amountBDesired,
                            r.amountAMin, r.amountBMin, to, deadline>>,
                          ZERO_HEX), done)

----------------------------------------------------------------------------
(* Router.removeCallParameters, src/src/index.ts:294-357 *)

(* new Fraction(balance).multiply(decreasePercent).divide(100), balance    *)
(* being a decimal string *)
Liquidity(balance, decreasePercent) ==
    divide(multiply(FractionOf(BigInt(balance)), FractionOf(decreasePercent)), FractionOf(100))

(* liquidity.divide(totalSupply), totalSupply being a decimal string *)
RemovePercent(liquidity, totalSupply) == divide(liquidity, FractionOf(BigInt(totalSupply)))

(* The minimum of a removal with the unit that add-liquidity adds. *)
RemoveMinimumBiased(reserve, removePercent, slippageAdjusted) ==
    add(multiply(multiply(reserve, removePercent), slippageAdjusted), FractionOf(1))

(* reserve.multiply(removePercent).multiply(slippageAdjusted), whose       *)
(* quotient is the minimum amount *)
RemoveMinimum(reserve, removePercent, slippageAdjusted) ==
    multiply(multiply(reserve, removePercent), slippageAdjusted)

removeCallParameters(pair, token0, token1, totalSupply, balance, decreasePercent, options, now) ==
    LET ether0 == token0.isNative
        ether1 == token1.isNative
    IN
    IF ether0 /\ ether1
    THEN Outcome(Thrown("ETHER_IN_OUT"), SubSeq(LiquidityChecks, 1, 1))
    ELSE IF ~TtlOk(options)
    THEN Outcome(Thrown("TTL"), SubSeq(LiquidityChecks, 1, 2))
    ELSE IF InvalidAddress(options.recipient)
    THEN Outcome(Thrown("INVALID_ADDRESS"), LiquidityChecks)
    ELSE
    LET to == validateAndParseAddress(options.recipient)
        slippageAdjusted == SlippageAdjusted(options.allowedSlippage)
        liquidity == Liquidity(balance, decreasePercent)
        removePercent == RemovePercent(liquidity, totalSupply)
        minA == RemoveMinimum(pair.reserve0, removePercent, slippageAdjusted)
        minB == RemoveMinimum(pair.reserve1, removePercent, slippageAdjusted)
        s0 == LiquidityChecks \o <<"slippageAdjusted", "liquidity", "removePercent">>
    IN
    IF DivisionByZero(minA)
    THEN Outcome(Thrown("Division by zero"), s0 \o <<"amountAMin">>)
    ELSE IF DivisionByZero(minB)
    THEN Outcome(Thrown("Division by zero"), s0 \o <<"amountAMin", "amountBMin">>)
    ELSE
    LET amountAMin == toString(quotient(minA), 10)
        amountBMin == toString(quotient(minB), 10)
        deadline == Deadline(options, now)
        done == s0 \o <<"amountAMin", "amountBMin", "deadline", "args">>
    IN
    IF ether0
    THEN Outcome(Returned("removeLiquidityETH",
                          <<pair.token1.address, toString(quotient(liquidity), 10),
                            amountBMin, amountAMin, to, deadline>>,
                          ZERO_HEX), done)
    ELSE IF ether1
    THEN Outcome(Returned("removeLiquidityETH",
                          <<pair.token0.address, toString(quotient(liquidity), 10),
                            amountAMin, amountBMin, to, deadline>>,
                          ZERO_HEX), done)
    ELSE Outcome(Returned("removeLiquidity",
                          <<pair.token0.address, pair.token1.address,
                            toString(quotient(liquidity), 10),
                            amountAMin, amountBMin, to, deadline>>,
                          ZERO_HEX), done)

----------------------------------------------------------------------------
(* The arguments a call is made with *)

Amounts == 0..MaxAmount

(* Amounts whose hexadecimal and decimal renderings differ in digits and   *)
(* in length. *)
LargeAmounts == {10, 16, 255}

Slippages == {[numerator |-> n, denominator |-> 4] : n \in 0..MaxSlippageNum}

Recipients == {"0xrecipient", "not-an-address"}

Expiries == {[ttl |-> t] : t \in (-1)..MaxTtl} \cup {[deadline |-> d] : d \in 1..MaxDeadline}

FeeOnTransfers == {<<>>, [feeOnTransfer |-> TRUE], [feeOnTransfer |-> FALSE]}

LiquidityOptions ==
    {e @@ [allowedSlippage |-> s, recipient |-> r] :
        e \in Expiries, s \in Slippages, r \in Recipients}

SwapOptions ==
    {e @@ f @@ [allowedSlippage |-> [numerator |-> 0, denominator |-> 4], recipient |-> r] :
        e \in Expiries, f \in FeeOnTransfers, r \in Recipients}

CurrencyAmount(isNative, raw) ==
    [currency |-> [isNative |-> isNative], numerator |-> raw, denominator |-> 1]

Path == <<"0xToken0", "0xToken1">>

(* A Trade as the router reads it: maximumAmountIn and minimumAmountOut    *)
(* are the amounts the accessors return for options.allowedSlippage. *)
Trades ==
    {[tradeType |-> tt,
      inputAmount |-> [currency |-> [isNative |-> ein]],
      outputAmount |-> [currency |-> [isNative |-> eout]],
      maximumAmountIn |-> CurrencyAmount(ein, ain),
      minimumAmountOut |-> CurrencyAmount(eout, aout),
      route |-> [path |-> Path]] :
        tt \in {"EXACT_INPUT", "EXACT_OUTPUT"}, ein \in BOOLEAN, eout \in BOOLEAN,
        ain \in Amounts \cup LargeAmounts, aout \in Amounts \cup LargeAmounts}

IsSwapCall(c) ==
    \E t \in Trades, o \in SwapOptions :
        c = [op |-> "swapCallParameters", trade |-> t, options |-> o]

Reserves == 0..MaxReserve

Pairs ==
    {[token0 |-> [address |-> "0xToken0"], token1 |-> [address |-> "0xToken1"],
      reserve0 |-> CurrencyAmount(FALSE, r0), reserve1 |-> CurrencyAmount(FALSE, r1)] :
        r0 \in Reserves, r1 \in Reserves}

(* The desired amounts: every small pair, and the deposit of 1000 and 2000. *)
DesiredAmounts == (Amounts \X Amounts) \cup {<<1000, 2000>>}

IsAddCall(c) ==
    \E p \in Pairs, a \in DesiredAmounts, e0 \in BOOLEAN, e1 \in BOOLEAN,
       o \in LiquidityOptions :
        c = [op |-> "addCallParameters", pair |-> p,
             amount0 |-> CurrencyAmount(e0, a[1]), amount1 |-> CurrencyAmount(e1, a[2]),
             options |-> o]

Supplies == {toString(n, 10) : n \in 0..MaxSupply}

DecreasePercents == {0, 33, 50, 100}

IsRemoveCall(c) ==
    \E p \in Pairs, e0 \in BOOLEAN, e1 \in BOOLEAN, ts \in Supplies, b \in Supplies,
       dp \in DecreasePercents, o \in LiquidityOptions :
        c = [op |-> "removeCallParameters", pair |-> p,
             token0 |-> [isNative |-> e0], token1 |-> [isNative |-> e1],
             totalSupply |-> ts, balance |-> b, decreasePercent |-> dp, options |-> o]

IsQuoteCall(c) ==
    \E a \in 0..MaxQuote, rA \in 0..MaxQuote, rB \in 0..MaxQuote :
        c = [op |-> "quote", amountA |-> FractionOf(a), reserveA |-> FractionOf(rA),
             reserveB |-> FractionOf(rB)]

----------------------------------------------------------------------------
(* The state machine: one call per behaviour *)

Init ==
    /\ pc = "ready"
    /\ \/ IsSwapCall(call)
       \/ IsAddCall(call)
       \/ IsRemoveCall(call)
       \/ IsQuoteCall(call)
    /\ result = Pending
    /\ steps = <<>>

Finish(outcome) ==
    /\ pc' = "done"
    /\ result' = outcome.result
    /\ steps' = outcome.steps
    /\ UNCHANGED call

SwapCallParameters ==
    /\ pc = "ready"
    /\ call.op = "swapCallParameters"
    /\ \E now \in 0..MaxNow :
          Finish(swapCallParameters(call.trade, call.options, now))

AddCallParameters ==
    /\ pc = "ready"
    /\ call.op = "addCallParameters"
    /\ \E now \in 0..MaxNow :
          Finish(addCallParameters(call.pair, call.amount0, call.amount1, call.options, now))

RemoveCallParameters ==
    /\ pc = "ready"
    /\ call.op = "removeCallParameters"
    /\ \E now \in 0..MaxNow :
          Finish(removeCallParameters(call.pair, call.token0, call.token1, call.totalSupply,
                                      call.balance, call.decreasePercent, call.options, now))

(* quote(amountA, reserveA, reserveB): the Fraction it returns *)
Quote ==
    /\ pc = "ready"
    /\ call.op = "quote"
    /\ pc' = "quoted"
    /\ result' = [kind |-> "return", fraction |-> quote(call.amountA, call.reserveA, call.reserveB)]
    /\ steps' = <<"quote">>
    /\ UNCHANGED call

(* The round trip on the Fraction itself: quote(quote(a, rA, rB), rB, rA) *)
QuoteBack ==
    /\ pc = "quoted"
    /\ pc' = "done"
    /\ result' = [kind |-> "return",
                  fraction |-> quote(result.fraction, call.reserveB, call.reserveA)]
    /\ steps' = steps \o <<"quote">>
    /\ UNCHANGED call

(* The round trip on the integer amount, as the router takes the result    *)
(* of quote: quote(quote(a, rA, rB).quotient, rB, rA) *)
QuoteBackQuotient ==
    /\ pc = "quoted"
    /\ pc' = "done"
    /\ IF DivisionByZero(result.fraction)
       THEN /\ result' = Thrown("Division by zero")
            /\ steps' = steps \o <<"quotient">>
       ELSE /\ result' = [kind |-> "return",
                          fraction |-> quote(FractionOf(quotient(result.fraction)),
                                             call.reserveB, call.reserveA)]
            /\ steps' = steps \o <<"quotient", "quote">>
    /\ UNCHANGED call

Next ==
    \/ SwapCallParameters
    \/ AddCallParameters
    \/ RemoveCallParameters
    \/ Quote
    \/ QuoteBack
    \/ QuoteBackQuotient

Spec == Init /\ [][Next]_vars

----------------------------------------------------------------------------
(* What the properties below read off a finished call *)

Finished(opName) == pc = "done" /\ call.op = opName

IsRouterCall ==
    call.op \in {"swapCallParameters", "addCallParameters", "removeCallParameters"}

(* Both currencies of the call are the native currency. *)
NativeBoth ==
    CASE call.op = "swapCallParameters" ->
            call.trade.inputAmount.currency.isNative
            /\ call.trade.outputAmount.currency.isNative
      [] call.op = "addCallParameters" ->
            call.amount0.currency.isNative /\ call.amount1.currency.isNative
      [] call.op = "removeCallParameters" ->
            call.token0.isNative /\ call.token1.isNative
      [] OTHER -> FALSE

TtlNotPositive == "ttl" \in DOMAIN call.options /\ call.options.ttl <= 0

RecipientValid == call.options.recipient = "0xrecipient"

FeeOnTransferRequested ==
    "feeOnTransfer" \in DOMAIN call.options /\ call.options.feeOnTransfer = TRUE

ExactOutputWithFee ==
    call.op = "swapCallParameters"
    /\ call.trade.tradeType = "EXACT_OUTPUT" /\ FeeOnTransferRequested

(* The deadline argument is the hex of now + ttl for some clock reading,   *)
(* or the hex of the absolute deadline. *)
IsDeadlineOf(d) ==
    IF "ttl" \in DOMAIN call.options
    THEN \E now \in 0..MaxNow : d = <<"0", "x">> \o toString(now + call.options.ttl, 16)
    ELSE d = <<"0", "x">> \o toString(call.options.deadline, 16)

----------------------------------------------------------------------------
(* The decision table of swap methods *)

TableMethod(tradeType, etherIn, etherOut, fee) ==
    CASE tradeType = "EXACT_INPUT" /\ etherIn /\ ~etherOut /\ ~fee -> "swapExactETHForTokens"
      [] tradeType = "EXACT_INPUT" /\ etherIn /\ ~etherOut /\ fee ->
            "swapExactETHForTokensSupportingFeeOnTransferTokens"
      [] tradeType = "EXACT_INPUT" /\ ~etherIn /\ etherOut /\ ~fee -> "swapExactTokensForETH"
      [] tradeType = "EXACT_INPUT" /\ ~etherIn /\ etherOut /\ fee ->
            "swapExactTokensForETHSupportingFeeOnTransferTokens"
      [] tradeType = "EXACT_INPUT" /\ ~etherIn /\ ~etherOut /\ ~fee -> "swapExactTokensForTokens"
      [] tradeType = "EXACT_INPUT" /\ ~etherIn /\ ~etherOut /\ fee ->
            "swapExactTokensForTokensSupportingFeeOnTransferTokens"
      [] tradeType = "EXACT_OUTPUT" /\ etherIn /\ ~etherOut /\ ~fee -> "swapETHForExactTokens"
      [] tradeType = "EXACT_OUTPUT" /\ ~etherIn /\ etherOut /\ ~fee -> "swapTokensForExactETH"
      [] tradeType = "EXACT_OUTPUT" /\ ~etherIn /\ ~etherOut /\ ~fee -> "swapTokensForExactTokens"
      [] OTHER -> "outside the table"

(* C1: every trade swapCallParameters accepts yields exactly the row of    *)
(* the decision table selected by (tradeType, etherIn, etherOut,           *)
(* feeOnTransfer): the method name (with the SupportingFeeOnTransferTokens *)
(* suffix iff fee-on-transfer is requested), the order of the arguments    *)
(* and the value, which is the hex of amountIn for a native input and      *)
(* '0x0' otherwise; no accepted combination is outside the table. *)
C1_DecisionTable ==
    (Finished("swapCallParameters") /\ result.kind = "return") =>
        LET tradeType == call.trade.tradeType
            etherIn == call.trade.inputAmount.currency.isNative
            etherOut == call.trade.outputAmount.currency.isNative
            amountIn == <<"0", "x">> \o toString(call.trade.maximumAmountIn.numerator, 16)
            amountOut == <<"0", "x">> \o toString(call.trade.minimumAmountOut.numerator, 16)
            n == Len(result.args)
        IN
        /\ TableMethod(tradeType, etherIn, etherOut, FeeOnTransferRequested) # "outside the table"
        /\ result.methodName = TableMethod(tradeType, etherIn, etherOut, FeeOnTransferRequested)
        /\ IF etherIn
           THEN /\ n = 4
                /\ result.args[1] = amountOut
                /\ result.value = amountIn
           ELSE /\ n = 5
                /\ result.args[1] = (IF tradeType = "EXACT_INPUT" THEN amountIn ELSE amountOut)
                /\ result.args[2] = (IF tradeType = "EXACT_INPUT" THEN amountOut ELSE amountIn)
                /\ result.value = <<"0", "x", "0">>
        /\ result.args[n - 2] = <<"0xToken0", "0xToken1">>
        /\ result.args[n - 1] = "0xRecipient"
        /\ IsDeadlineOf(result.args[n])

(* An exact-output swap of tokens for the native currency was encoded,     *)
(* with different amounts in and out. *)
C1_Witness ==
    /\ Finished("swapCallParameters")
    /\ result.kind = "return"
    /\ result.methodName = "swapTokensForExactETH"
    /\ result.args[1] = <<"0", "x", "1", "0">>
    /\ result.args[2] = <<"0", "x", "f", "f">>

----------------------------------------------------------------------------
(* C2: swapCallParameters returns nothing and throws ETHER_IN_OUT when     *)
(* both currencies are native, TTL when a ttl <= 0 is supplied, and        *)
(* EXACT_OUT_FOT when an exact-output trade requests fee-on-transfer (each *)
(* tag being the one thrown when no earlier check fails);                  *)
(* fee-on-transfer on an exact-input trade is not rejected, and options    *)
(* that carry a deadline are never rejected with TTL.  addCallParameters   *)
(* and removeCallParameters reject native-native and ttl <= 0 alike. *)

C2_Rejections ==
    (pc = "done" /\ IsRouterCall) =>
        /\ NativeBoth => result = Thrown("ETHER_IN_OUT")
        /\ TtlNotPositive =>
              /\ result.kind = "throw"
              /\ ~NativeBoth => result = Thrown("TTL")
        /\ ExactOutputWithFee =>
              /\ result.kind = "throw"
              /\ (~NativeBoth /\ ~TtlNotPositive /\ RecipientValid) =>
                    result = Thrown("EXACT_OUT_FOT")
        /\ ( /\ call.op = "swapCallParameters"
             /\ call.trade.tradeType = "EXACT_INPUT"
             /\ FeeOnTransferRequested
             /\ ~NativeBoth /\ ~TtlNotPositive /\ RecipientValid ) =>
              result.kind = "return"
        /\ "deadline" \in DOMAIN call.options => result # Thrown("TTL")

(* An exact-output trade that requests fee-on-transfer was rejected, and   *)
(* the options carried a ttl. *)
C2_Witness ==
    /\ Finished("swapCallParameters")
    /\ ExactOutputWithFee
    /\ "ttl" \in DOMAIN call.options
    /\ result = Thrown("EXACT_OUT_FOT")

----------------------------------------------------------------------------
(* Validation failures and the statements that are checks *)

ValidationErrors == {"ETHER_IN_OUT", "TTL", "EXACT_OUT_FOT", "INVALID_ADDRESS"}

CheckSteps ==
    {"invariant ETHER_IN_OUT", "invariant TTL", "validateAndParseAddress",
     "invariant EXACT_OUT_FOT"}

StepsTaken == {steps[i] : i \in 1..Len(steps)}

(* C5 as stated: every validation failure (native-native, ttl, fee on      *)
(* transfer with exact output, invalid recipient) happens before any       *)
(* amount arithmetic, deadline computation or argument construction. *)
C5_ValidationBeforeArithmetic ==
    (pc = "done" /\ IsRouterCall /\ result.kind = "throw" /\ result.error \in ValidationErrors) =>
        StepsTaken \subseteq CheckSteps

(* C5 (amended): the native-native, ttl and recipient failures happen      *)
(* before any amount arithmetic, deadline computation or argument          *)
(* construction; the EXACT_OUT_FOT failure of swapCallParameters happens   *)
(* after maximumAmountIn, minimumAmountOut, the path and the deadline were *)
(* computed and before methodName, args and value are built.  A failed     *)
(* call returns nothing. *)
C5_ValidationOrder ==
    (pc = "done" /\ IsRouterCall /\ result.kind = "throw" /\ result.error \in ValidationErrors) =>
        /\ DOMAIN result = {"kind", "error"}
        /\ result.error \in {"ETHER_IN_OUT", "TTL", "INVALID_ADDRESS"} =>
              StepsTaken \subseteq CheckSteps
        /\ result.error = "EXACT_OUT_FOT" =>
              /\ call.op = "swapCallParameters"
              /\ steps = <<"invariant ETHER_IN_OUT", "invariant TTL", "validateAndParseAddress",
                           "maximumAmountIn", "minimumAmountOut", "path", "deadline",
                           "invariant EXACT_OUT_FOT">>

(* A fee-on-transfer exact-output trade was rejected after its amounts     *)
(* were computed. *)
C5_Witness ==
    /\ Finished("swapCallParameters")
    /\ result = Thrown("EXACT_OUT_FOT")
    /\ "maximumAmountIn" \in StepsTaken

----------------------------------------------------------------------------
(* Hexadecimal amounts *)

HexDigitSet == {Digits[i] : i \in 1..16}

IsHexAmount(s) ==
    /\ Len(s) >= 3
    /\ s[1] = "0"
    /\ s[2] = "x"
    /\ \A i \in 3..Len(s) : s[i] \in HexDigitSet
    /\ s[3] = "0" => Len(s) = 3

(* The positions of args that hold amounts, by method. *)
AmountPositions(methodName) ==
    CASE methodName \in {"swapExactETHForTokens", "swapETHForExactTokens",
                         "swapExactETHForTokensSupportingFeeOnTransferTokens"} -> {1}
      [] methodName \in {"addLiquidityETH", "removeLiquidityETH"} -> {2, 3, 4}
      [] methodName = "addLiquidity" -> {3, 4, 5, 6}
      [] methodName = "removeLiquidity" -> {3, 4, 5}
      [] OTHER -> {1, 2}

(* C3 as stated: in every result of swapCallParameters, addCallParameters  *)
(* and removeCallParameters, every amount in args or value is a            *)
(* non-negative integer written as 0x-prefixed hexadecimal without leading *)
(* zeros, zero being '0x0'. *)
C3_AmountsAreHex ==
    (pc = "done" /\ IsRouterCall /\ result.kind = "return") =>
        /\ IsHexAmount(result.value)
        /\ \A i \in AmountPositions(result.methodName) : IsHexAmount(result.args[i])

----------------------------------------------------------------------------
(* C4 as stated: for every non-zero reserveA, quote(amountA, reserveA,     *)
(* reserveB) is amountA * reserveB / reserveA truncated to an integer (the *)
(* second parameter divides, the third multiplies). *)

C4_QuoteRatio ==
    (pc = "quoted" /\ call.reserveA.numerator # 0) =>
        /\ ~DivisionByZero(result.fraction)
        /\ quotient(result.fraction) =
              (call.amountA.numerator * call.reserveB.numerator) \div call.reserveA.numerator

----------------------------------------------------------------------------
(* The amounts addCallParameters emitted, read back from args and value *)

AddEmitted ==
    IF call.amount0.currency.isNative
    THEN [aDesired |-> BigInt(result.value), aMin |-> BigInt(result.args[4]),
          bDesired |-> BigInt(result.args[2]), bMin |-> BigInt(result.args[3])]
    ELSE IF call.amount1.currency.isNative
    THEN [aDesired |-> BigInt(result.args[2]), aMin |-> BigInt(result.args[3]),
          bDesired |-> BigInt(result.value), bMin |-> BigInt(result.args[4])]
    ELSE [aDesired |-> BigInt(result.args[3]), aMin |-> BigInt(result.args[5]),
          bDesired |-> BigInt(result.args[4]), bMin |-> BigInt(result.args[6])]

AddReturned == Finished("addCallParameters") /\ result.kind = "return"

(* C6 as stated: for every allowedSlippage in [0,1) and every desired      *)
(* amount, each emitted minimum floor(desired / (1 + slippage)) + 1 is     *)
(* never above the desired amount emitted for the same token. *)
C6_MinimumNeverAboveDesired ==
    AddReturned =>
        /\ AddEmitted.aMin <= AddEmitted.aDesired
        /\ AddEmitted.bMin <= AddEmitted.bDesired

MinimumBound(slippage, desired, minimum) ==
    IF slippage.numerator > 0 /\ desired > 0
    THEN minimum <= desired
    ELSE minimum = desired + 1

(* C6 (amended): each emitted minimum is at most the desired amount        *)
(* emitted for the same token when allowedSlippage is positive and that    *)
(* desired amount is positive; when allowedSlippage is zero or the desired *)
(* amount is zero the minimum is the desired amount plus one.  This holds  *)
(* for the initial minimums and for a minimum recomputed from an optimal   *)
(* amount. *)
C6_MinimumBound ==
    AddReturned =>
        /\ MinimumBound(call.options.allowedSlippage, AddEmitted.aDesired, AddEmitted.aMin)
        /\ MinimumBound(call.options.allowedSlippage, AddEmitted.bDesired, AddEmitted.bMin)

(* With positive slippage the B side was replaced by a positive optimal    *)
(* amount and its minimum was recomputed. *)
C6_Witness ==
    /\ AddReturned
    /\ call.options.allowedSlippage.numerator > 0
    /\ "amountBOptimal < amountBMin" \in StepsTaken
    /\ AddEmitted.bDesired > 0
    /\ AddEmitted.bMin <= AddEmitted.bDesired

----------------------------------------------------------------------------
(* Round trips of quote *)

QuotePositive ==
    /\ call.op = "quote"
    /\ call.amountA.numerator > 0
    /\ call.reserveA.numerator > 0
    /\ call.reserveB.numerator > 0

----------------------------------------------------------------------------
(* The amounts removeCallParameters emitted, read back from args *)

RemoveEmitted ==
    IF call.token0.isNative
    THEN [liquidity |-> BigInt(result.args[2]), aMin |-> BigInt(result.args[4]),
          bMin |-> BigInt(result.args[3])]
    ELSE IF call.token1.isNative
    THEN [liquidity |-> BigInt(result.args[2]), aMin |-> BigInt(result.args[3]),
          bMin |-> BigInt(result.args[4])]
    ELSE [liquidity |-> BigInt(result.args[3]), aMin |-> BigInt(result.args[4]),
          bMin |-> BigInt(result.args[5])]

(* C8: removeCallParameters emits liquidity = balance * decreasePercent /  *)
(* 100 and, for each token X, amountXMin = floor(reserveX * (liquidity /   *)
(* totalSupply) / (1 + allowedSlippage)), liquidity being the exact        *)
(* rational, with no unit added; with decreasePercent = 100 and balance =  *)
(* totalSupply the emitted liquidity is balance and amountXMin =           *)
(* floor(reserveX / (1 + allowedSlippage)), which is reserveX at zero      *)
(* slippage. *)
C8_RemoveMinimums ==
    (Finished("removeCallParameters") /\ result.kind = "return") =>
        LET balance == BigInt(call.balance)
            totalSupply == BigInt(call.totalSupply)
            percent == call.decreasePercent
            n == call.options.allowedSlippage.numerator
            d == call.options.allowedSlippage.denominator
            r0 == call.pair.reserve0.numerator
            r1 == call.pair.reserve1.numerator
        IN
        /\ RemoveEmitted.liquidity = (balance * percent) \div 100
        /\ RemoveEmitted.aMin = (r0 * balance * percent * d) \div (100 * totalSupply * (d + n))
        /\ RemoveEmitted.bMin = (r1 * balance * percent * d) \div (100 * totalSupply * (d + n))
        /\ (percent = 100 /\ balance = totalSupply) =>
              /\ RemoveEmitted.liquidity = balance
              /\ RemoveEmitted.aMin = (r0 * d) \div (d + n)
              /\ RemoveEmitted.bMin = (r1 * d) \div (d + n)
              /\ n = 0 => (RemoveEmitted.aMin = r0 /\ RemoveEmitted.bMin = r1)

(* The whole position was removed at zero slippage from a pool with        *)
(* different positive reserves. *)
C8_Witness ==
    /\ Finished("removeCallParameters")
    /\ result.kind = "return"
    /\ call.decreasePercent = 100
    /\ call.balance = call.totalSupply
    /\ call.options.allowedSlippage.numerator = 0
    /\ call.pair.reserve0.numerator > call.pair.reserve1.numerator
    /\ call.pair.reserve1.numerator > 0
    /\ RemoveEmitted.aMin = call.pair.reserve0.numerator

----------------------------------------------------------------------------
(* The reference reconciliation of add-liquidity amounts *)

RefMin(x, slippage) ==
    (x * slippage.denominator) \div (slippage.denominator + slippage.numerator) + 1

RefAmounts(a, aMin, b, bMin) == [aDesired |-> a, aMin |-> aMin, bDesired |-> b, bMin |-> bMin]

RefReconcile(a0, a1, r0, r1, slippage) ==
    LET unchanged == RefAmounts(a0, RefMin(a0, slippage), a1, RefMin(a1, slippage)) IN
    IF r0 = 0 /\ r1 = 0
    THEN unchanged
    ELSE LET bOpt == (a0 * r1) \div r0 IN
         IF bOpt <= a1
         THEN IF bOpt < RefMin(a1, slippage)
              THEN RefAmounts(a0, RefMin(a0, slippage), bOpt, RefMin(bOpt, slippage))
              ELSE unchanged
         ELSE LET aOpt == (a1 * r0) \div r1 IN
              IF aOpt <= a0 /\ aOpt < RefMin(a0, slippage)
              THEN RefAmounts(aOpt, RefMin(aOpt, slippage), a1, RefMin(a1, slippage))
              ELSE unchanged

----------------------------------------------------------------------------
(* C10: for a pool with both reserves positive, addCallParameters never    *)
(* reaches the branch in which both optimal amounts exceed their desired   *)
(* amounts: whenever floor(amount0 * reserve1 / reserve0) > amount1,       *)
(* floor(amount1 * reserve0 / reserve1) <= amount0. *)

C10_NoUnresolvedBranch ==
    ( /\ Finished("addCallParameters")
      /\ call.pair.reserve0.numerator > 0
      /\ call.pair.reserve1.numerator > 0 ) =>
        "todo: error?" \notin StepsTaken

(* The B-side optimum exceeded the desired amount and the A side was       *)
(* examined. *)
C10_Witness ==
    /\ AddReturned
    /\ call.pair.reserve0.numerator > 0
    /\ call.pair.reserve1.numerator > 0
    /\ "amountAOptimal <= amountADesired" \in StepsTaken

====
